---- MODULE Spec2Model ----
(***************************************************************************)
(* Model of the NAPALM Cumulus driver (napalm_cumulus/cumulus.py): the     *)
(* configuration transaction of CumulusDriver (load_merge_candidate,       *)
(* compare_config, commit_config, discard_config, rollback) and the        *)
(* session protocol (open) over the netmiko text channel.                  *)
(*                                                                         *)
(* Text is a sequence of tokens.  A token is a piece of text the driver    *)
(* never looks inside: a marker it searches for ("error", "[y/N]", ...),   *)
(* a white-space character, or a run of other characters.  Python's        *)
(* `marker in text` is membership of the marker token, str.split, strip,   *)
(* splitlines and re.sub are computed on the token sequence.               *)
(***************************************************************************)
EXTENDS Integers, Sequences, FiniteSets, TLC

(***************************************************************************)
(* Bounds of the model.                                                    *)
(***************************************************************************)
MaxLines == 2      \* lines of a candidate (file, or list given as config)
MaxDiffLen == 2    \* tokens of a device reply to a diff / apply query
MaxApplyLen == 2   \* tokens before the prompt in a device reply to an apply
MaxHist == 2       \* lines of a device reply to the history query
MaxCommits == 2    \* successful commits counted in one session
MaxCandidates == 2 \* candidates opened while two callers share a session

(***************************************************************************)
(* Sequences over S of length at most n.                                   *)
(***************************************************************************)
SeqUpTo(S, n) == UNION {[1..k -> S] : k \in 0..n}

(***************************************************************************)
(* Python string primitives on token sequences.                            *)
(***************************************************************************)
WS == {" ", "\n"}

Contains(text, tok) == \E i \in 1..Len(text) : text[i] = tok

FirstIdx(text, tok) == CHOOSE i \in 1..Len(text) :
                          /\ text[i] = tok
                          /\ \A j \in 1..(i-1) : text[j] /= tok

\* str.split(sep): the pieces between the occurrences of sep (never empty list)
RECURSIVE Split(_, _)
Split(text, sep) ==
    IF ~Contains(text, sep) THEN <<text>>
    ELSE LET i == FirstIdx(text, sep)
         IN  <<SubSeq(text, 1, i-1)>> \o Split(SubSeq(text, i+1, Len(text)), sep)

\* str.strip(chars): drop the leading and trailing tokens that are in chars
RECURSIVE StripChars(_, _)
StripChars(text, chars) ==
    IF Len(text) = 0 THEN text
    ELSE IF text[1] \in chars THEN StripChars(Tail(text), chars)
    ELSE IF text[Len(text)] \in chars
         THEN StripChars(SubSeq(text, 1, Len(text)-1), chars)
    ELSE text

Strip(text) == StripChars(text, WS)

\* keep the non-empty elements of a sequence (a Python `if x` filter)
RECURSIVE NonEmpty(_)
NonEmpty(seq) ==
    IF Len(seq) = 0 THEN <<>>
    ELSE IF Len(Head(seq)) = 0 THEN NonEmpty(Tail(seq))
    ELSE <<Head(seq)>> \o NonEmpty(Tail(seq))

\* str.split() with no argument: the maximal runs of non-white-space
RECURSIVE SplitWords(_)
SplitWords(text) ==
    LET t == Strip(text)
    IN  IF Len(t) = 0 THEN <<>>
        ELSE IF \E i \in 1..Len(t) : t[i] \in WS
             THEN LET i == CHOOSE k \in 1..Len(t) :
                              /\ t[k] \in WS
                              /\ \A j \in 1..(k-1) : t[j] \notin WS
                  IN  <<SubSeq(t, 1, i-1)>> \o SplitWords(SubSeq(t, i+1, Len(t)))
        ELSE <<t>>

\* str.splitlines(): the lines, without a last empty one
SplitLines(text) ==
    LET parts == Split(text, "\n")
    IN  IF Len(parts[Len(parts)]) = 0
        THEN SubSeq(parts, 1, Len(parts)-1)
        ELSE parts

\* re.sub(r'\x1b\[\d+m', '', text): drop the escapes of the form ESC [ digits m
AnsiSimple == {"ESC[31m", "ESC[0m"}

RECURSIVE ReSubAnsi(_)
ReSubAnsi(text) ==
    IF Len(text) = 0 THEN <<>>
    ELSE IF Head(text) \in AnsiSimple THEN ReSubAnsi(Tail(text))
    ELSE <<Head(text)>> \o ReSubAnsi(Tail(text))

(***************************************************************************)
(* The channel.  A reply of the device is a text, or ChanFail when         *)
(* netmiko's send_command_timing raises instead of returning.              *)
(***************************************************************************)
ChanFail == <<"<NetMikoTimeoutException>">>

Failed(reply) == reply = ChanFail

\* Commands the driver sends (cumulus.py, the literals of lines 102-190)
SudoSu == <<"sudo su">>
SudoPwd == <<"<sudo_pwd>">>
NvShowSystem == <<"nv show system">>
NvConfigDetach == <<"nv config detach">>
NetAbort == <<"net abort">>
NvConfigDiff == <<"nv config diff --color off">>
NetPending == <<"net pending">>
NvConfigApply == <<"nv config apply">>
NetCommit == <<"net commit">>
AnswerYes == <<"y">>
AnswerNo == <<"n">>
NvConfigHistory == <<"nv config history |grep rev_id:">>
NetRollbackLast == <<"net rollback last">>

\* f'nv config apply { previous_rev }'
NvConfigApplyRev(rev) == <<"nv config apply ">> \o rev

(***************************************************************************)
(* Replies the device may give, by the command they answer.                *)
(***************************************************************************)
PlainReplies == {<<>>, ChanFail}

ProbeReplies == {<<"Cumulus Linux 4">>, <<"Cumulus Linux 5">>,
                 <<"hostname", "\n", "Cumulus Linux 5">>, ChanFail}

SudoReplies == {<<>>, <<"[sudo]", " ", "password for cumulus:">>, ChanFail}

LineReplies == {<<>>, <<"error">>, <<"not found">>, ChanFail}

\* The replies a loop over n commands can read: it stops at the first reply
\* that is not the empty one.
ReplyRuns(n) ==
    {[i \in 1..n |-> <<>>]} \cup
    {[i \in 1..k |-> IF i < k THEN <<>> ELSE r] :
        k \in 1..n, r \in LineReplies \ {<<>>}}

\* rs followed by empty replies, n in all
Pad(rs, n) == rs \o [i \in 1..(n - Len(rs)) |-> <<>>]

DiffTokens == {"+ interface swp1", "\n", "net add/del commands",
               "ESC[31m", "ESC[1;31m"}

\* two pending-changes texts of `net pending`, as the device prints them
DiffExamples == {<<"+ interface swp1", "\n", "net add/del commands", "\n", "...">>,
                 <<"net add/del commands", "\n", "some ignored junk">>}

DiffReplies == SeqUpTo(DiffTokens, MaxDiffLen) \cup DiffExamples \cup {ChanFail}

\* The reply to 'nv config apply': a text, with or without the confirmation
\* prompt at its end.
ApplyTokens == {"Warning:", "Are you", "MTU mismatch", " "}

ApplyReplies ==
    LET body == SeqUpTo(ApplyTokens, MaxApplyLen)
    IN  body \cup {b \o <<"[y/N]">> : b \in body} \cup {ChanFail}

\* one line of `nv config history |grep rev_id:`
HistLines == {<<"rev_id:", " ", "'", "5", "'">>,
              <<"rev_id:", " ", "'", "4", "'">>,
              <<"rev_id:">>}

\* '\n'.join(lines)
RECURSIVE JoinLines(_)
JoinLines(lines) ==
    IF Len(lines) = 0 THEN <<>>
    ELSE IF Len(lines) = 1 THEN lines[1]
    ELSE lines[1] \o <<"\n">> \o JoinLines(Tail(lines))

HistReplies == {JoinLines(ls) : ls \in SeqUpTo(HistLines, MaxHist)} \cup {ChanFail}

(***************************************************************************)
(* Arguments of load_merge_candidate.                                      *)
(***************************************************************************)
NoneVal == "<None>"

Filenames == {NoneVal, "", "candidate.cfg"}

Lines == {<<>>, <<"net add vlan 10">>, <<"sudo", "ifreload -a">>}

ConfigNone == [kind |-> "None", text |-> <<>>, lines |-> <<>>]
ConfigStr(t) == [kind |-> "str", text |-> t, lines |-> <<>>]
ConfigList(ls) == [kind |-> "list", text |-> <<>>, lines |-> ls]

Configs == {ConfigNone} \cup {ConfigStr(t) : t \in Lines}
               \cup {ConfigList(ls) : ls \in SeqUpTo(Lines, MaxLines)}

\* f.readlines(): every line keeps its line terminator
ReadLines(ls) == [i \in 1..Len(ls) |-> ls[i] \o <<"\n">>]

FileMissing == <<<<"<FileNotFoundError>">>>>

\* the lines of a candidate file, before their terminators: empty or a command
FileLines == {<<>>, <<"net add vlan 10">>}

Files == {ReadLines(ls) : ls \in SeqUpTo(FileLines, MaxLines)} \cup {FileMissing}

\* Python truth value of the arguments
Truthy(filename) == filename /= NoneVal /\ filename /= ""

TruthyConfig(config) ==
    CASE config.kind = "None" -> FALSE
      [] config.kind = "str"  -> Len(config.text) > 0
      [] config.kind = "list" -> Len(config.lines) > 0

(***************************************************************************)
(* The driver object and the outcome of one call.                          *)
(*   self : the fields of CumulusDriver                                    *)
(*   sent : the commands the call sent on the channel, in order            *)
(*   err  : the exception the call raised, "none" when it returned         *)
(*   msg  : the message of that exception                                  *)
(*   ret  : the text the call returned (empty for None)                    *)
(***************************************************************************)
Return(self, sent, ret) ==
    [self |-> self, sent |-> sent, err |-> "none", msg |-> <<>>, ret |-> ret]

Raise(self, sent, err, msg) ==
    [self |-> self, sent |-> sent, err |-> err, msg |-> msg, ret |-> <<>>]

\* self.device.send_command_timing(command) on an object that was never opened
NoDevice(self) == self.device = "None"

\* the exception _send_command raises for this reply, "none" when it returns
SendError(self, reply) ==
    IF NoDevice(self) THEN "AttributeError"
    ELSE IF Failed(reply) THEN "NetMikoTimeoutException"
    ELSE "none"

\* the channel's record of the sends so far after _send_command(command)
Sending(self, sent, command) ==
    IF NoDevice(self) THEN sent ELSE Append(sent, command)

(***************************************************************************)
(* CumulusDriver.__init__                                                  *)
(***************************************************************************)
Constructed(force, has_sudo, secret) ==
    [device |-> "None", loaded |-> FALSE, changed |-> FALSE,
     use_nvue |-> FALSE, force |-> force, has_sudo |-> has_sudo,
     secret |-> secret]

(***************************************************************************)
(* CumulusDriver.open                                                      *)
(*   conn   : what ConnectHandler(...) does                                *)
(*   enable : what self.device.enable() does                               *)
(***************************************************************************)
ConnectOutcomes == {"ok", "NetMikoTimeoutException", "NetMikoAuthenticationException"}

EnableOutcomes == {"ok", "ValueError"}

VersionMarker == "Cumulus Linux 5"

CannotConnect == <<"Cannot connect to ", "<hostname>">>

open(self, conn, enable, rSudo, rPwd, rProbe) ==
    IF conn = "NetMikoTimeoutException"
    THEN Raise(self, <<>>, "ConnectionException", CannotConnect)
    ELSE IF conn /= "ok" THEN Raise(self, <<>>, conn, <<>>)
    ELSE
    LET s1 == [self EXCEPT !.device = "connected"]
        prompted == Contains(rSudo, "[sudo]")
        sentPriv == IF ~self.has_sudo THEN <<>>
                    ELSE IF Failed(rSudo) \/ ~prompted THEN <<SudoSu>>
                    ELSE <<SudoSu, SudoPwd>>
    IN  IF self.has_sudo /\ self.secret /\ enable = "ValueError"
        THEN Raise(s1, <<>>, "ConnectionException", <<"Cannot become root.">>)
        ELSE IF self.has_sudo /\ (Failed(rSudo) \/ (prompted /\ Failed(rPwd)))
        THEN Raise(s1, sentPriv, "ConnectionException", CannotConnect)
        ELSE IF Failed(rProbe)
        THEN Raise(s1, Append(sentPriv, NvShowSystem), "NetMikoTimeoutException", <<>>)
        ELSE Return([s1 EXCEPT !.use_nvue = @ \/ Contains(rProbe, VersionMarker)],
                    Append(sentPriv, NvShowSystem), <<>>)

(***************************************************************************)
(* CumulusDriver.load_merge_candidate                                      *)
(***************************************************************************)
\* '{0}'.format(command)
Format0(command) == command

\* lines 128-137: the lines that will be sent
CandidateLines(filename, config, file) ==
    LET candidate == IF filename /= NoneVal THEN file
                     ELSE IF config.kind = "list" THEN config.lines
                     ELSE <<config.text>>
    IN  NonEmpty(candidate)

CannotBeApplied(command) == <<"Command '">> \o command \o <<"' cannot be applied.">>

\* SendCandidate that notes a rejected line and raises only after the loop
RECURSIVE SendCandidate_SendsAll(_, _, _, _)
SendCandidate_SendsAll(self, candidate, replies, sent) ==
    IF Len(candidate) = 0 THEN Return(self, sent, <<>>)
    ELSE
    LET line == Head(candidate)
        command == IF ~Contains(line, "sudo") THEN Format0(line) ELSE line
        output == Head(replies)
        sent1 == Sending(self, sent, command)
    IN  IF SendError(self, output) /= "none"
        THEN Raise(self, sent1, SendError(self, output), <<>>)
        ELSE IF Contains(output, "error") \/ Contains(output, "not found")
        THEN Raise(self,
                   SendCandidate_SendsAll(self, Tail(candidate), Tail(replies),
                                          sent1).sent,
                   "MergeConfigException", CannotBeApplied(command))
        ELSE SendCandidate_SendsAll(self, Tail(candidate), Tail(replies), sent1)

\* lines 138-143: the loop over the candidate; replies[i] answers the i-th send
RECURSIVE SendCandidate(_, _, _, _)
SendCandidate(self, candidate, replies, sent) ==
    IF Len(candidate) = 0 THEN Return(self, sent, <<>>)
    ELSE
    LET line == Head(candidate)
        command == IF ~Contains(line, "sudo") THEN Format0(line) ELSE line
        output == Head(replies)
        sent1 == Sending(self, sent, command)
    IN  IF SendError(self, output) /= "none"
        THEN Raise(self, sent1, SendError(self, output), <<>>)
        ELSE IF Contains(output, "error") \/ Contains(output, "not found")
        THEN Raise(self, sent1, "MergeConfigException", CannotBeApplied(command))
        ELSE SendCandidate(self, Tail(candidate), Tail(replies), sent1)

\* load_merge_candidate that opens the transaction only when a line is left
load_merge_candidate_LoadedIfLines(self, filename, config, file, replies) ==
    IF ~Truthy(filename) /\ ~TruthyConfig(config)
    THEN Raise(self, <<>>, "MergeConfigException",
               <<"filename or config param must be provided.">>)
    ELSE IF filename /= NoneVal /\ (filename = "" \/ file = FileMissing)
    THEN Raise([self EXCEPT !.loaded = TRUE], <<>>, "FileNotFoundError", <<>>)
    ELSE
    LET s1 == IF Len(CandidateLines(filename, config, file)) > 0
              THEN [self EXCEPT !.loaded = TRUE] ELSE self
    IN  SendCandidate(s1, CandidateLines(filename, config, file), replies, <<>>)

\* load_merge_candidate with `self.loaded = not self.loaded`
load_merge_candidate_TogglesLoaded(self, filename, config, file, replies) ==
    IF ~Truthy(filename) /\ ~TruthyConfig(config)
    THEN Raise(self, <<>>, "MergeConfigException",
               <<"filename or config param must be provided.">>)
    ELSE
    LET s1 == [self EXCEPT !.loaded = ~self.loaded]
    IN  IF filename /= NoneVal /\ (filename = "" \/ file = FileMissing)
        THEN Raise(s1, <<>>, "FileNotFoundError", <<>>)
        ELSE SendCandidate(s1, CandidateLines(filename, config, file), replies, <<>>)

\* load_merge_candidate with `self.loaded = True` moved above the argument check
load_merge_candidate_LoadsFirst(self, filename, config, file, replies) ==
    LET s1 == [self EXCEPT !.loaded = TRUE]
    IN  IF ~Truthy(filename) /\ ~TruthyConfig(config)
        THEN Raise(s1, <<>>, "MergeConfigException",
                   <<"filename or config param must be provided.">>)
        ELSE IF filename /= NoneVal /\ (filename = "" \/ file = FileMissing)
        THEN Raise(s1, <<>>, "FileNotFoundError", <<>>)
        ELSE SendCandidate(s1, CandidateLines(filename, config, file), replies, <<>>)

load_merge_candidate(self, filename, config, file, replies) ==
    IF ~Truthy(filename) /\ ~TruthyConfig(config)
    THEN Raise(self, <<>>, "MergeConfigException",
               <<"filename or config param must be provided.">>)
    ELSE
    LET s1 == [self EXCEPT !.loaded = TRUE]
    IN  IF filename /= NoneVal /\ (filename = "" \/ file = FileMissing)
        THEN Raise(s1, <<>>, "FileNotFoundError", <<>>)
        ELSE SendCandidate(s1, CandidateLines(filename, config, file), replies, <<>>)

(***************************************************************************)
(* CumulusDriver.discard_config                                            *)
(***************************************************************************)
\* discard_config without `self.loaded = False` in the declarative branch
\* a discard that also forgets the detected dialect
discard_config_ForgetsDialect(self, sent, reply) ==
    IF self.loaded
    THEN LET command == IF self.use_nvue THEN NvConfigDetach ELSE NetAbort
             sent1 == Sending(self, sent, command)
         IN  IF SendError(self, reply) /= "none"
             THEN Raise(self, sent1, SendError(self, reply), <<>>)
             ELSE Return([self EXCEPT !.loaded = FALSE, !.use_nvue = FALSE],
                         sent1, <<>>)
    ELSE Return(self, sent, <<>>)

discard_config_StaysLoaded(self, sent, reply) ==
    IF self.loaded
    THEN LET command == IF self.use_nvue THEN NvConfigDetach ELSE NetAbort
             sent1 == Sending(self, sent, command)
         IN  IF SendError(self, reply) /= "none"
             THEN Raise(self, sent1, SendError(self, reply), <<>>)
             ELSE IF self.use_nvue THEN Return(self, sent1, <<>>)
             ELSE Return([self EXCEPT !.loaded = FALSE], sent1, <<>>)
    ELSE Return(self, sent, <<>>)

discard_config(self, sent, reply) ==
    IF self.loaded
    THEN LET command == IF self.use_nvue THEN NvConfigDetach ELSE NetAbort
             sent1 == Sending(self, sent, command)
         IN  IF SendError(self, reply) /= "none"
             THEN Raise(self, sent1, SendError(self, reply), <<>>)
             ELSE Return([self EXCEPT !.loaded = FALSE], sent1, <<>>)
    ELSE Return(self, sent, <<>>)

(***************************************************************************)
(* CumulusDriver.compare_config                                            *)
(***************************************************************************)
DiffMarker == "net add/del commands"

\* compare_config that closes the transaction once it has the diff
compare_config_ClosesTransaction(self, reply) ==
    IF self.loaded /\ self.use_nvue
    THEN IF SendError(self, reply) /= "none"
         THEN Raise(self, Sending(self, <<>>, NvConfigDiff), SendError(self, reply), <<>>)
         ELSE Return([self EXCEPT !.loaded = FALSE], <<NvConfigDiff>>, reply)
    ELSE IF self.loaded
    THEN IF SendError(self, reply) /= "none"
         THEN Raise(self, Sending(self, <<>>, NetPending), SendError(self, reply), <<>>)
         ELSE LET full_diff == reply
                  trimmed_diff == Strip(Split(full_diff, DiffMarker)[1])
              IN  IF trimmed_diff /= <<>>
                  THEN Return([self EXCEPT !.loaded = FALSE], <<NetPending>>,
                              ReSubAnsi(full_diff))
                  ELSE Return([self EXCEPT !.loaded = FALSE], <<NetPending>>, <<>>)
    ELSE Return(self, <<>>, <<>>)

\* compare_config that asks for the staged diff whatever the dialect
compare_config_StagedDiffOnly(self, reply) ==
    IF self.loaded
    THEN IF SendError(self, reply) /= "none"
         THEN Raise(self, Sending(self, <<>>, NvConfigDiff), SendError(self, reply), <<>>)
         ELSE Return(self, <<NvConfigDiff>>, reply)
    ELSE Return(self, <<>>, <<>>)

\* compare_config testing full_diff, not the part before the marker
compare_config_NoTrim(self, reply) ==
    IF self.loaded /\ self.use_nvue
    THEN IF SendError(self, reply) /= "none"
         THEN Raise(self, Sending(self, <<>>, NvConfigDiff), SendError(self, reply), <<>>)
         ELSE Return(self, <<NvConfigDiff>>, reply)
    ELSE IF self.loaded
    THEN IF SendError(self, reply) /= "none"
         THEN Raise(self, Sending(self, <<>>, NetPending), SendError(self, reply), <<>>)
         ELSE LET full_diff == reply
                  trimmed_diff == Strip(full_diff)
              IN  IF trimmed_diff /= <<>>
                  THEN Return(self, <<NetPending>>, ReSubAnsi(full_diff))
                  ELSE Return(self, <<NetPending>>, <<>>)
    ELSE Return(self, <<>>, <<>>)

\* compare_config with `elif self.loaded:` written as `else:`
compare_config_AlwaysPending(self, reply) ==
    IF self.loaded /\ self.use_nvue
    THEN IF SendError(self, reply) /= "none"
         THEN Raise(self, Sending(self, <<>>, NvConfigDiff), SendError(self, reply), <<>>)
         ELSE Return(self, <<NvConfigDiff>>, reply)
    ELSE IF SendError(self, reply) /= "none"
         THEN Raise(self, Sending(self, <<>>, NetPending), SendError(self, reply), <<>>)
         ELSE LET full_diff == reply
                  trimmed_diff == Strip(Split(full_diff, DiffMarker)[1])
              IN  IF trimmed_diff /= <<>>
                  THEN Return(self, <<NetPending>>, ReSubAnsi(full_diff))
                  ELSE Return(self, <<NetPending>>, <<>>)

compare_config(self, reply) ==
    IF self.loaded /\ self.use_nvue
    THEN IF SendError(self, reply) /= "none"
         THEN Raise(self, Sending(self, <<>>, NvConfigDiff), SendError(self, reply), <<>>)
         ELSE Return(self, <<NvConfigDiff>>, reply)
    ELSE IF self.loaded
    THEN IF SendError(self, reply) /= "none"
         THEN Raise(self, Sending(self, <<>>, NetPending), SendError(self, reply), <<>>)
         ELSE LET full_diff == reply
                  trimmed_diff == Strip(Split(full_diff, DiffMarker)[1])
              IN  IF trimmed_diff /= <<>>
                  THEN Return(self, <<NetPending>>, ReSubAnsi(full_diff))
                  ELSE Return(self, <<NetPending>>, <<>>)
    ELSE Return(self, <<>>, <<>>)

(***************************************************************************)
(* CumulusDriver.commit_config                                             *)
(*   rApply answers 'nv config apply' / 'net commit', rAnswer the "y" or   *)
(*   "n" typed at the confirmation prompt, rDiscard the nested discard.    *)
(***************************************************************************)
CannotBeAppliedBecause(err_msg) == <<"Config cannot be applied. ">> \o err_msg

\* a rejection that also marks the session as changed
RejectMerge_MarksChanged(self, sent, response) ==
    LET parts == Split(response, "Warning:")
        marked == [self EXCEPT !.changed = TRUE]
    IN  IF Len(parts) < 2
        THEN Raise(marked, sent, "IndexError", <<>>)
        ELSE LET err_msg == Strip(Split(parts[2], "Are you")[1])
             IN  Raise(marked, sent, "MergeConfigException",
                       CannotBeAppliedBecause(err_msg))

\* response.split("Warning:")[1].split("Are you")[0].strip(), lines 175-176
RejectMerge(self, sent, response) ==
    LET parts == Split(response, "Warning:")
    IN  IF Len(parts) < 2
        THEN Raise(self, sent, "IndexError", <<>>)
        ELSE LET err_msg == Strip(Split(parts[2], "Are you")[1])
             IN  Raise(self, sent, "MergeConfigException",
                       CannotBeAppliedBecause(err_msg))

\* commit_config without `self.changed = True`
commit_config_NoChanged(self, rApply, rAnswer, rDiscard) ==
    IF ~self.loaded THEN Return(self, <<>>, <<>>)
    ELSE
    LET done == [self EXCEPT !.loaded = FALSE]
    IN  IF self.use_nvue
        THEN LET sent1 == Sending(self, <<>>, NvConfigApply)
                 response == rApply
             IN  IF SendError(self, rApply) /= "none"
                 THEN Raise(self, sent1, SendError(self, rApply), <<>>)
                 ELSE IF Contains(response, "[y/N]")
                 THEN IF self.force
                      THEN IF Failed(rAnswer)
                           THEN Raise(self, Append(sent1, AnswerYes),
                                      SendError(self, rAnswer), <<>>)
                           ELSE Return(done, Append(sent1, AnswerYes), <<>>)
                      ELSE IF Failed(rAnswer)
                           THEN Raise(self, Append(sent1, AnswerNo),
                                      SendError(self, rAnswer), <<>>)
                           ELSE LET d == discard_config(self, Append(sent1, AnswerNo),
                                                        rDiscard)
                                IN  IF d.err /= "none" THEN d
                                    ELSE RejectMerge(d.self, d.sent, response)
                 ELSE Return(done, sent1, <<>>)
        ELSE LET sent1 == Sending(self, <<>>, NetCommit)
             IN  IF SendError(self, rApply) /= "none"
                 THEN Raise(self, sent1, SendError(self, rApply), <<>>)
                 ELSE Return(done, sent1, <<>>)

\* commit_config without the `if not self.loaded: return` guard
commit_config_NoGuard(self, rApply, rAnswer, rDiscard) ==
    LET done == [self EXCEPT !.changed = TRUE, !.loaded = FALSE]
    IN  IF self.use_nvue
        THEN LET sent1 == Sending(self, <<>>, NvConfigApply)
                 response == rApply
             IN  IF SendError(self, rApply) /= "none"
                 THEN Raise(self, sent1, SendError(self, rApply), <<>>)
                 ELSE IF Contains(response, "[y/N]")
                 THEN IF self.force
                      THEN IF Failed(rAnswer)
                           THEN Raise(self, Append(sent1, AnswerYes),
                                      SendError(self, rAnswer), <<>>)
                           ELSE Return(done, Append(sent1, AnswerYes), <<>>)
                      ELSE IF Failed(rAnswer)
                           THEN Raise(self, Append(sent1, AnswerNo),
                                      SendError(self, rAnswer), <<>>)
                           ELSE LET d == discard_config(self, Append(sent1, AnswerNo),
                                                        rDiscard)
                                IN  IF d.err /= "none" THEN d
                                    ELSE RejectMerge(d.self, d.sent, response)
                 ELSE Return(done, sent1, <<>>)
        ELSE LET sent1 == Sending(self, <<>>, NetCommit)
             IN  IF SendError(self, rApply) /= "none"
                 THEN Raise(self, sent1, SendError(self, rApply), <<>>)
                 ELSE Return(done, sent1, <<>>)

commit_config(self, rApply, rAnswer, rDiscard) ==
    IF ~self.loaded THEN Return(self, <<>>, <<>>)
    ELSE
    LET done == [self EXCEPT !.changed = TRUE, !.loaded = FALSE]
    IN  IF self.use_nvue
        THEN LET sent1 == Sending(self, <<>>, NvConfigApply)
                 response == rApply
             IN  IF SendError(self, rApply) /= "none"
                 THEN Raise(self, sent1, SendError(self, rApply), <<>>)
                 ELSE IF Contains(response, "[y/N]")
                 THEN IF self.force
                      THEN IF Failed(rAnswer)
                           THEN Raise(self, Append(sent1, AnswerYes),
                                      SendError(self, rAnswer), <<>>)
                           ELSE Return(done, Append(sent1, AnswerYes), <<>>)
                      ELSE IF Failed(rAnswer)
                           THEN Raise(self, Append(sent1, AnswerNo),
                                      SendError(self, rAnswer), <<>>)
                           ELSE LET d == discard_config(self, Append(sent1, AnswerNo),
                                                        rDiscard)
                                IN  IF d.err /= "none" THEN d
                                    ELSE RejectMerge(d.self, d.sent, response)
                 ELSE Return(done, sent1, <<>>)
        ELSE LET sent1 == Sending(self, <<>>, NetCommit)
             IN  IF SendError(self, rApply) /= "none"
                 THEN Raise(self, sent1, SendError(self, rApply), <<>>)
                 ELSE Return(done, sent1, <<>>)

(***************************************************************************)
(* CumulusDriver.rollback                                                  *)
(***************************************************************************)
\* rollback without the `if self.changed:` guard
rollback_NoGuard(self, rHistory, rApply) ==
    LET done == [self EXCEPT !.changed = FALSE]
    IN  IF self.use_nvue
        THEN LET sent1 == Sending(self, <<>>, NvConfigHistory)
             IN  IF SendError(self, rHistory) /= "none"
                 THEN Raise(self, sent1, SendError(self, rHistory), <<>>)
                 ELSE
                 LET rev_history == SplitLines(rHistory)
                 IN  IF Len(rev_history) < 2
                     THEN Raise(self, sent1, "IndexError", <<>>)
                     ELSE
                     LET words == SplitWords(rev_history[2])
                     IN  IF Len(words) < 2
                         THEN Raise(self, sent1, "IndexError", <<>>)
                         ELSE
                         LET previous_rev == StripChars(words[2], {"'"})
                             sent2 == Append(sent1, NvConfigApplyRev(previous_rev))
                         IN  IF Failed(rApply)
                             THEN Raise(self, sent2, SendError(self, rApply), <<>>)
                             ELSE Return(done, sent2, <<>>)
        ELSE LET sent1 == Sending(self, <<>>, NetRollbackLast)
             IN  IF SendError(self, rHistory) /= "none"
                 THEN Raise(self, sent1, SendError(self, rHistory), <<>>)
                 ELSE Return(done, sent1, <<>>)

\* rollback without `self.changed = False`
rollback_KeepsChanged(self, rHistory, rApply) ==
    IF ~self.changed THEN Return(self, <<>>, <<>>)
    ELSE
    LET done == self
    IN  IF self.use_nvue
        THEN LET sent1 == Sending(self, <<>>, NvConfigHistory)
             IN  IF SendError(self, rHistory) /= "none"
                 THEN Raise(self, sent1, SendError(self, rHistory), <<>>)
                 ELSE
                 LET rev_history == SplitLines(rHistory)
                 IN  IF Len(rev_history) < 2
                     THEN Raise(self, sent1, "IndexError", <<>>)
                     ELSE
                     LET words == SplitWords(rev_history[2])
                     IN  IF Len(words) < 2
                         THEN Raise(self, sent1, "IndexError", <<>>)
                         ELSE
                         LET previous_rev == StripChars(words[2], {"'"})
                             sent2 == Append(sent1, NvConfigApplyRev(previous_rev))
                         IN  IF Failed(rApply)
                             THEN Raise(self, sent2, SendError(self, rApply), <<>>)
                             ELSE Return(done, sent2, <<>>)
        ELSE LET sent1 == Sending(self, <<>>, NetRollbackLast)
             IN  IF SendError(self, rHistory) /= "none"
                 THEN Raise(self, sent1, SendError(self, rHistory), <<>>)
                 ELSE Return(done, sent1, <<>>)

\* rollback reading rev_history[0], the most recent revision
rollback_FirstEntry(self, rHistory, rApply) ==
    IF ~self.changed THEN Return(self, <<>>, <<>>)
    ELSE
    LET done == [self EXCEPT !.changed = FALSE]
    IN  IF self.use_nvue
        THEN LET sent1 == Sending(self, <<>>, NvConfigHistory)
             IN  IF SendError(self, rHistory) /= "none"
                 THEN Raise(self, sent1, SendError(self, rHistory), <<>>)
                 ELSE
                 LET rev_history == SplitLines(rHistory)
                 IN  IF Len(rev_history) < 2
                     THEN Raise(self, sent1, "IndexError", <<>>)
                     ELSE
                     LET words == SplitWords(rev_history[1])
                     IN  IF Len(words) < 2
                         THEN Raise(self, sent1, "IndexError", <<>>)
                         ELSE
                         LET previous_rev == StripChars(words[2], {"'"})
                             sent2 == Append(sent1, NvConfigApplyRev(previous_rev))
                         IN  IF Failed(rApply)
                             THEN Raise(self, sent2, SendError(self, rApply), <<>>)
                             ELSE Return(done, sent2, <<>>)
        ELSE LET sent1 == Sending(self, <<>>, NetRollbackLast)
             IN  IF SendError(self, rHistory) /= "none"
                 THEN Raise(self, sent1, SendError(self, rHistory), <<>>)
                 ELSE Return(done, sent1, <<>>)

rollback(self, rHistory, rApply) ==
    IF ~self.changed THEN Return(self, <<>>, <<>>)
    ELSE
    LET done == [self EXCEPT !.changed = FALSE]
    IN  IF self.use_nvue
        THEN LET sent1 == Sending(self, <<>>, NvConfigHistory)
             IN  IF SendError(self, rHistory) /= "none"
                 THEN Raise(self, sent1, SendError(self, rHistory), <<>>)
                 ELSE
                 LET rev_history == SplitLines(rHistory)
                 IN  IF Len(rev_history) < 2
                     THEN Raise(self, sent1, "IndexError", <<>>)
                     ELSE
                     LET words == SplitWords(rev_history[2])
                     IN  IF Len(words) < 2
                         THEN Raise(self, sent1, "IndexError", <<>>)
                         ELSE
                         LET previous_rev == StripChars(words[2], {"'"})
                             sent2 == Append(sent1, NvConfigApplyRev(previous_rev))
                         IN  IF Failed(rApply)
                             THEN Raise(self, sent2, SendError(self, rApply), <<>>)
                             ELSE Return(done, sent2, <<>>)
        ELSE LET sent1 == Sending(self, <<>>, NetRollbackLast)
             IN  IF SendError(self, rHistory) /= "none"
                 THEN Raise(self, sent1, SendError(self, rHistory), <<>>)
                 ELSE Return(done, sent1, <<>>)

(***************************************************************************)
(* Structured output.  A JSON text is "{", entries, "}"; an entry is one   *)
(* `"interface": [vlan specs]` member of 'net show bridge vlan json'.      *)
(* A read that stopped early gives a text cut before its end.              *)
(***************************************************************************)
NetShowBridgeVlanJson == <<"net show bridge vlan json">>

\* "swp1": [{"vlan": 10}]   and   "swp2": [{"vlan": 10, "vlanEnd": 12}]
JsonEntryOf(tok) ==
    CASE tok = "\"swp1\": [{\"vlan\": 10}]" ->
            [interface |-> "swp1",
             specs |-> <<[vlan |-> 10, hasEnd |-> FALSE, vlanEnd |-> 0]>>]
      [] tok = "\"swp2\": [{\"vlan\": 10, \"vlanEnd\": 12}]" ->
            [interface |-> "swp2",
             specs |-> <<[vlan |-> 10, hasEnd |-> TRUE, vlanEnd |-> 12]>>]

JsonEntries == {"\"swp1\": [{\"vlan\": 10}]",
                "\"swp2\": [{\"vlan\": 10, \"vlanEnd\": 12}]"}

JsonReplies == {<<"{", "}">>,
                <<"{", "\"swp1\": [{\"vlan\": 10}]", "}">>,
                <<"{", "\"swp1\": [{\"vlan\": 10}]",
                  "\"swp2\": [{\"vlan\": 10, \"vlanEnd\": 12}]", "}">>,
                <<"null">>,
                <<"{", "\"swp1\": [{\"vlan\": 10}]">>,
                <<>>,
                ChanFail}

\* json.loads raises ValueError unless the text is a whole JSON document
JsonParses(text) ==
    \/ text = <<"null">>
    \/ /\ Len(text) >= 2
       /\ text[1] = "{"
       /\ text[Len(text)] = "}"
       /\ \A i \in 2..(Len(text)-1) : text[i] \in JsonEntries

\* json.loads of a text that parses: None, or the members in their order
JsonLoads(text) ==
    IF text = <<"null">> THEN [isDict |-> FALSE, items |-> <<>>]
    ELSE [isDict |-> TRUE,
          items |-> [i \in 1..(Len(text)-2) |-> JsonEntryOf(text[i+1])]]

\* the try/except around json.loads with no second attempt
LoadJson_NoRetry(self, sent, command, r1, r2) ==
    LET sent1 == Sending(self, sent, command)
    IN  IF SendError(self, r1) /= "none"
        THEN [Raise(self, sent1, SendError(self, r1), <<>>)
                EXCEPT !.ret = [isDict |-> FALSE, items |-> <<>>]]
        ELSE IF JsonParses(r1)
        THEN Return(self, sent1, JsonLoads(r1))
        ELSE [Raise(self, sent1, "ValueError", <<>>)
                EXCEPT !.ret = [isDict |-> FALSE, items |-> <<>>]]

\* try: json.loads(self._send_command(command))
\* except ValueError: json.loads(self.device.send_command(command))
\* ret is the parsed value when nothing is raised
LoadJson(self, sent, command, r1, r2) ==
    LET sent1 == Sending(self, sent, command)
        sent2 == Append(sent1, command)
        none == [isDict |-> FALSE, items |-> <<>>]
    IN  IF SendError(self, r1) /= "none"
        THEN [Raise(self, sent1, SendError(self, r1), <<>>) EXCEPT !.ret = none]
        ELSE IF JsonParses(r1)
        THEN Return(self, sent1, JsonLoads(r1))
        ELSE IF Failed(r2)
        THEN [Raise(self, sent2, SendError(self, r2), <<>>) EXCEPT !.ret = none]
        ELSE IF JsonParses(r2)
        THEN Return(self, sent2, JsonLoads(r2))
        ELSE [Raise(self, sent2, "ValueError", <<>>) EXCEPT !.ret = none]

(***************************************************************************)
(* CumulusDriver._extract_all_vlans and CumulusDriver.get_vlans            *)
(***************************************************************************)
ExtractAllVlans(vlan_spec) ==
    IF ~vlan_spec.hasEnd THEN <<vlan_spec.vlan>>
    ELSE [i \in 1..(vlan_spec.vlanEnd - vlan_spec.vlan) |-> vlan_spec.vlan + i - 1]

\* lines 334-340: one (vlan, interface) pair added to final_vlans
AddVlan(final_vlans, vlan, interface) ==
    IF \E i \in 1..Len(final_vlans) : final_vlans[i].vlan = vlan
    THEN [i \in 1..Len(final_vlans) |->
            IF final_vlans[i].vlan = vlan
            THEN [final_vlans[i] EXCEPT !.interfaces = Append(@, interface)]
            ELSE final_vlans[i]]
    ELSE Append(final_vlans,
                [vlan |-> vlan, name |-> "", interfaces |-> <<interface>>])

RECURSIVE AddVlans(_, _, _)
AddVlans(final_vlans, vlans, interface) ==
    IF Len(vlans) = 0 THEN final_vlans
    ELSE AddVlans(AddVlan(final_vlans, Head(vlans), interface), Tail(vlans),
                  interface)

RECURSIVE AddSpecs(_, _, _)
AddSpecs(final_vlans, vlans_spec, interface) ==
    IF Len(vlans_spec) = 0 THEN final_vlans
    ELSE AddSpecs(AddVlans(final_vlans, ExtractAllVlans(Head(vlans_spec)), interface),
                  Tail(vlans_spec), interface)

RECURSIVE AddInterfaces(_, _)
AddInterfaces(final_vlans, items) ==
    IF Len(items) = 0 THEN final_vlans
    ELSE AddInterfaces(AddSpecs(final_vlans, Head(items).specs,
                                Head(items).interface),
                       Tail(items))

\* the value returned is final_vlans: its entries in the order they were added
get_vlans(self, r1, r2) ==
    LET j == LoadJson(self, <<>>, NetShowBridgeVlanJson, r1, r2)
    IN  IF j.err /= "none" THEN Raise(self, j.sent, j.err, <<>>)
        ELSE IF ~j.ret.isDict THEN Raise(self, j.sent, "AttributeError", <<>>)
        ELSE Return(self, j.sent, AddInterfaces(<<>>, j.ret.items))

(***************************************************************************)
(* State: the fields of one CumulusDriver object, and the record of the    *)
(* last call made on it (what was called, with what, what the device       *)
(* answered, what the call sent, raised and returned, and the fields       *)
(* before the call).                                                       *)
(***************************************************************************)
VARIABLES device, loaded, changed, use_nvue, force, has_sudo, secret,
          lastOp, args, replies, sent, err, msg, ret, pre

(***************************************************************************)
(* Observers of a session.                                                 *)
(*   commits   : commit_config calls that applied a candidate and returned *)
(*   reached   : rollback calls that sent a command to the device          *)
(*   completed : rollback calls that sent a command and returned           *)
(*   failed    : some send raised the channel's exception                  *)
(* and, when several callers share the session,                            *)
(*   pc        : the statement each caller is at ("idle" between calls)    *)
(*   seen      : the candidate each caller saw when it tested self.loaded  *)
(*   cand      : the number of candidates opened so far                    *)
(*   received  : the commit and abort commands the device was sent, each   *)
(*               with the candidate its sender saw                         *)
(*   overlap   : some call began while another was in progress             *)
(***************************************************************************)
VARIABLES commits, reached, completed, failed,
          pc, seen, cand, received, overlap

counters == <<commits, reached, completed, failed>>

callers == <<pc, seen, cand, received, overlap>>

vars == <<device, loaded, changed, use_nvue, force, has_sudo, secret,
          lastOp, args, replies, sent, err, msg, ret, pre,
          commits, reached, completed, failed,
          pc, seen, cand, received, overlap>>

Self == [device |-> device, loaded |-> loaded, changed |-> changed,
         use_nvue |-> use_nvue, force |-> force, has_sudo |-> has_sudo,
         secret |-> secret]

NoArgs == [filename |-> NoneVal, config |-> ConfigNone, file |-> <<>>]

\* the two callers of the shared session
Callers == {"a", "b"}

\* the fields after the call, and the record of the call
Recorded(op, a, rs, out) ==
    /\ device' = out.self.device
    /\ loaded' = out.self.loaded
    /\ changed' = out.self.changed
    /\ use_nvue' = out.self.use_nvue
    /\ force' = out.self.force
    /\ has_sudo' = out.self.has_sudo
    /\ secret' = out.self.secret
    /\ lastOp' = op
    /\ args' = a
    /\ replies' = SubSeq(rs, 1, Len(out.sent))
    /\ sent' = out.sent
    /\ err' = out.err
    /\ msg' = out.msg
    /\ ret' = out.ret
    /\ pre' = Self

\* a call made by the single owner of the session
Called(op, a, rs, out) ==
    /\ Recorded(op, a, rs, out)
    /\ UNCHANGED counters
    /\ UNCHANGED callers

NothingCounted ==
    /\ commits = 0
    /\ reached = 0
    /\ completed = 0
    /\ failed = FALSE

NobodyCalling ==
    /\ pc = [c \in Callers |-> "idle"]
    /\ seen = [c \in Callers |-> 0]
    /\ cand = 0
    /\ received = {}
    /\ overlap = FALSE

Init ==
    /\ \E f \in BOOLEAN, h \in BOOLEAN, s \in BOOLEAN :
          /\ s => h     \* the secret is read only together with has_sudo
          /\ device = Constructed(f, h, s).device
          /\ loaded = Constructed(f, h, s).loaded
          /\ changed = Constructed(f, h, s).changed
          /\ use_nvue = Constructed(f, h, s).use_nvue
          /\ force = Constructed(f, h, s).force
          /\ has_sudo = Constructed(f, h, s).has_sudo
          /\ secret = Constructed(f, h, s).secret
          /\ pre = Constructed(f, h, s)
    /\ lastOp = "__init__"
    /\ args = NoArgs
    /\ replies = <<>>
    /\ sent = <<>>
    /\ err = "none"
    /\ msg = <<>>
    /\ ret = <<>>
    /\ NothingCounted
    /\ NobodyCalling

\* Each action draws the replies its call can read, and no others.
Open ==
    \E conn \in ConnectOutcomes :
    \E enable \in IF has_sudo /\ secret THEN EnableOutcomes ELSE {"ok"} :
    \E rSudo \in IF has_sudo THEN SudoReplies ELSE {<<>>} :
    \E rPwd \in IF Contains(rSudo, "[sudo]") THEN PlainReplies ELSE {<<>>} :
    \E rProbe \in ProbeReplies :
        Called("open", NoArgs,
               (IF has_sudo THEN <<rSudo>> ELSE <<>>)
                  \o (IF Contains(rSudo, "[sudo]") THEN <<rPwd>> ELSE <<>>)
                  \o <<rProbe>>,
               open(Self, conn, enable, rSudo, rPwd, rProbe))

LoadMergeCandidate ==
    \E filename \in Filenames :
    \E config \in IF Truthy(filename) THEN {ConfigNone} ELSE Configs :
    \E file \in IF Truthy(filename) THEN Files ELSE {<<>>} :
    \E n \in {Len(CandidateLines(filename, config, file))} :
    \E rs \in ReplyRuns(n) :
        Called("load_merge_candidate",
               [filename |-> filename, config |-> config, file |-> file],
               Pad(rs, n),
               load_merge_candidate(Self, filename, config, file, Pad(rs, n)))

DiscardConfig ==
    \E reply \in IF loaded THEN PlainReplies ELSE {<<>>} :
        Called("discard_config", NoArgs, <<reply>>,
               discard_config(Self, <<>>, reply))

CompareConfig ==
    \E reply \in IF loaded THEN DiffReplies ELSE {<<>>} :
        Called("compare_config", NoArgs, <<reply>>, compare_config(Self, reply))

CommitConfig ==
    \E rApply \in IF ~loaded THEN {<<>>}
                   ELSE IF use_nvue THEN ApplyReplies ELSE PlainReplies :
    \E rAnswer \in IF Contains(rApply, "[y/N]") THEN PlainReplies ELSE {<<>>} :
    \E rDiscard \in IF Contains(rApply, "[y/N]") /\ ~force /\ ~Failed(rAnswer)
                     THEN PlainReplies ELSE {<<>>} :
        Called("commit_config", NoArgs, <<rApply, rAnswer, rDiscard>>,
               commit_config(Self, rApply, rAnswer, rDiscard))

Rollback ==
    \E rHistory \in IF ~changed THEN {<<>>}
                     ELSE IF use_nvue THEN HistReplies ELSE PlainReplies :
    \E rApply \in IF changed /\ use_nvue /\ ~Failed(rHistory)
                   THEN PlainReplies ELSE {<<>>} :
        Called("rollback", NoArgs, <<rHistory, rApply>>,
               rollback(Self, rHistory, rApply))

GetVlans ==
    \E r1 \in JsonReplies :
    \E r2 \in IF ~Failed(r1) /\ ~JsonParses(r1) THEN JsonReplies ELSE {<<>>} :
        Called("get_vlans", NoArgs, <<r1, r2>>, get_vlans(Self, r1, r2))

Next ==
    \/ Open
    \/ LoadMergeCandidate
    \/ DiscardConfig
    \/ CompareConfig
    \/ CommitConfig
    \/ Rollback
    \/ GetVlans

Spec == Init /\ [][Next]_vars

(***************************************************************************)
(* The same session with its commits and rollbacks counted.  The calls are *)
(* those of the single owner; the candidate is one line given as config.   *)
(***************************************************************************)
OneLine == ConfigList(<<<<"net add vlan 10">>>>)

PromptReplies == {<<>>, <<"Warning:", "MTU mismatch", "Are you", "[y/N]">>, ChanFail}

CountedOpen ==
    /\ device = "None"
    /\ \E rProbe \in ProbeReplies :
          /\ Recorded("open", NoArgs,
                      (IF has_sudo THEN <<<<>>>> ELSE <<>>) \o <<rProbe>>,
                      open(Self, "ok", "ok", <<>>, <<>>, rProbe))
          /\ failed' = (failed \/ Failed(rProbe))
          /\ UNCHANGED <<commits, reached, completed>>
          /\ UNCHANGED callers

CountedLoad ==
    \E reply \in LineReplies :
        /\ Recorded("load_merge_candidate",
                    [filename |-> NoneVal, config |-> OneLine, file |-> <<>>],
                    <<reply>>,
                    load_merge_candidate(Self, NoneVal, OneLine, <<>>, <<reply>>))
        /\ failed' = (failed \/ Failed(reply))
        /\ UNCHANGED <<commits, reached, completed>>
        /\ UNCHANGED callers

CountedDiscard ==
    \E reply \in IF loaded THEN PlainReplies ELSE {<<>>} :
        /\ Recorded("discard_config", NoArgs, <<reply>>,
                    discard_config(Self, <<>>, reply))
        /\ failed' = (failed \/ Failed(reply))
        /\ UNCHANGED <<commits, reached, completed>>
        /\ UNCHANGED callers

\* a commit is counted when it applied a candidate and returned
CountedCommit ==
    /\ commits < MaxCommits
    /\ \E rApply \in IF ~loaded THEN {<<>>}
                      ELSE IF use_nvue THEN PromptReplies ELSE PlainReplies :
       \E rAnswer \in IF Contains(rApply, "[y/N]") THEN PlainReplies ELSE {<<>>} :
       \E rDiscard \in IF Contains(rApply, "[y/N]") /\ ~force /\ ~Failed(rAnswer)
                        THEN PlainReplies ELSE {<<>>} :
          LET out == commit_config(Self, rApply, rAnswer, rDiscard)
          IN  /\ Recorded("commit_config", NoArgs, <<rApply, rAnswer, rDiscard>>, out)
              /\ commits' = IF loaded /\ out.err = "none"
                            THEN commits + 1 ELSE commits
              /\ failed' = (failed \/ Failed(rApply) \/ Failed(rAnswer)
                                    \/ Failed(rDiscard))
              /\ UNCHANGED <<reached, completed>>
              /\ UNCHANGED callers

\* a rollback is counted when it sent a command, and again when it returned
CountedRollback ==
    /\ reached <= MaxCommits
    /\ \E rHistory \in IF ~changed THEN {<<>>}
                        ELSE IF use_nvue THEN HistReplies ELSE PlainReplies :
       \E rApply \in IF changed /\ use_nvue /\ ~Failed(rHistory)
                      THEN PlainReplies ELSE {<<>>} :
          LET out == rollback(Self, rHistory, rApply)
          IN  /\ Recorded("rollback", NoArgs, <<rHistory, rApply>>, out)
              /\ reached' = IF Len(out.sent) > 0 THEN reached + 1 ELSE reached
              /\ completed' = IF Len(out.sent) > 0 /\ out.err = "none"
                              THEN completed + 1 ELSE completed
              /\ failed' = (failed \/ Failed(rHistory) \/ Failed(rApply))
              /\ UNCHANGED commits
              /\ UNCHANGED callers

NextCounted ==
    \/ CountedOpen
    \/ CountedLoad
    \/ CountedDiscard
    \/ CountedCommit
    \/ CountedRollback

SpecCounted == Init /\ [][NextCounted]_vars

(***************************************************************************)
(* One open session driven by two callers with no lock around it.  A call  *)
(* runs statement by statement: between two statements of one caller the   *)
(* other caller may run, and a send blocks its caller until the reply is   *)
(* read.  The candidate is one line; a reply to the apply may carry the    *)
(* confirmation prompt; any send may raise the channel's exception.        *)
(***************************************************************************)
\* line 126: self.loaded = True
load_begun(self) == [self EXCEPT !.loaded = TRUE]

\* line 151: self.loaded = False
discard_done(self) == [self EXCEPT !.loaded = FALSE]

\* commit_config that leaves the candidate open: only `self.changed = True`
commit_done_KeepsLoaded(self) == [self EXCEPT !.changed = TRUE]

\* lines 179-180: self.changed = True; self.loaded = False
commit_done(self) == [self EXCEPT !.changed = TRUE, !.loaded = FALSE]

Opened(f, rProbe) == open(Constructed(f, FALSE, FALSE), "ok", "ok", <<>>, <<>>, rProbe)

InitCallers ==
    /\ \E f \in BOOLEAN :
       \E rProbe \in {<<"Cumulus Linux 4">>, <<"Cumulus Linux 5">>} :
          /\ device = Opened(f, rProbe).self.device
          /\ loaded = Opened(f, rProbe).self.loaded
          /\ changed = Opened(f, rProbe).self.changed
          /\ use_nvue = Opened(f, rProbe).self.use_nvue
          /\ force = Opened(f, rProbe).self.force
          /\ has_sudo = Opened(f, rProbe).self.has_sudo
          /\ secret = Opened(f, rProbe).self.secret
          /\ pre = Constructed(f, FALSE, FALSE)
          /\ replies = <<rProbe>>
          /\ sent = Opened(f, rProbe).sent
    /\ lastOp = "open"
    /\ args = NoArgs
    /\ err = "none"
    /\ msg = <<>>
    /\ ret = <<>>
    /\ NothingCounted
    /\ NobodyCalling

\* what a step of a caller leaves alone: the record of open and the counters
StepFrame ==
    UNCHANGED <<device, use_nvue, force, has_sudo, secret,
                lastOp, args, replies, sent, err, msg, ret, pre,
                commits, reached, completed>>

\* caller c begins a call while the other caller is inside one
Begins(c) ==
    overlap' = (overlap \/ \E d \in Callers \ {c} : pc[d] /= "idle")

\* caller c moves to statement p
Goto(c, p) == pc' = [pc EXCEPT ![c] = p]

\* the device is sent a commit or an abort by a caller that saw candidate k
Receives(kind, k, nested) ==
    received' = received \cup {[kind |-> kind, cand |-> k, nested |-> nested]}

\* load_merge_candidate, lines 123-126: the arguments are given, the
\* candidate is opened (a new one when none was open)
LoadBegin(c) ==
    /\ pc[c] = "idle"
    /\ loaded \/ cand < MaxCandidates
    /\ Begins(c)
    /\ loaded' = load_begun(Self).loaded
    /\ cand' = IF loaded THEN cand ELSE cand + 1
    /\ Goto(c, "load_send")
    /\ UNCHANGED <<changed, seen, received, failed>>
    /\ StepFrame

\* lines 138-143: the line is sent; the call ends whatever the reply
LoadSend(c) ==
    /\ pc[c] = "load_send"
    /\ \E reply \in LineReplies :
          failed' = (failed \/ Failed(reply))
    /\ Goto(c, "idle")
    /\ UNCHANGED <<loaded, changed, seen, cand, received, overlap>>
    /\ StepFrame

\* discard_config, line 146: if self.loaded
DiscardTest(c) ==
    /\ pc[c] = "idle"
    /\ Begins(c)
    /\ IF loaded
       THEN Goto(c, "discard_send") /\ seen' = [seen EXCEPT ![c] = cand]
       ELSE UNCHANGED <<pc, seen>>
    /\ UNCHANGED <<loaded, changed, cand, received, failed>>
    /\ StepFrame

\* lines 147-150: 'nv config detach' or 'net abort'
DiscardSend(c) ==
    /\ pc[c] = "discard_send"
    /\ Receives("abort", seen[c], FALSE)
    /\ \E reply \in PlainReplies :
          /\ failed' = (failed \/ Failed(reply))
          /\ Goto(c, IF Failed(reply) THEN "idle" ELSE "discard_done")
    /\ UNCHANGED <<loaded, changed, seen, cand, overlap>>
    /\ StepFrame

\* line 151
DiscardDone(c) ==
    /\ pc[c] = "discard_done"
    /\ loaded' = discard_done(Self).loaded
    /\ Goto(c, "idle")
    /\ UNCHANGED <<changed, seen, cand, received, overlap, failed>>
    /\ StepFrame

\* commit_config, lines 165-166: if not self.loaded: return
CommitTest(c) ==
    /\ pc[c] = "idle"
    /\ Begins(c)
    /\ IF loaded
       THEN Goto(c, "commit_send") /\ seen' = [seen EXCEPT ![c] = cand]
       ELSE UNCHANGED <<pc, seen>>
    /\ UNCHANGED <<loaded, changed, cand, received, failed>>
    /\ StepFrame

\* lines 167-169 and 177-178: 'nv config apply' or 'net commit'
CommitSend(c) ==
    /\ pc[c] = "commit_send"
    /\ Receives("commit", seen[c], FALSE)
    /\ \E response \in IF use_nvue THEN PromptReplies ELSE PlainReplies :
          /\ failed' = (failed \/ Failed(response))
          /\ Goto(c, IF Failed(response) THEN "idle"
                     ELSE IF use_nvue /\ Contains(response, "[y/N]")
                     THEN "commit_answer" ELSE "commit_done")
    /\ UNCHANGED <<loaded, changed, seen, cand, overlap>>
    /\ StepFrame

\* lines 170-173: "y" when forced, else "n"
CommitAnswer(c) ==
    /\ pc[c] = "commit_answer"
    /\ \E reply \in PlainReplies :
          /\ failed' = (failed \/ Failed(reply))
          /\ Goto(c, IF Failed(reply) THEN "idle"
                     ELSE IF force THEN "commit_done" ELSE "commit_discard")
    /\ UNCHANGED <<loaded, changed, seen, cand, received, overlap>>
    /\ StepFrame

\* line 174, self.discard_config(): its test of self.loaded; when the
\* candidate is gone the rejection of lines 175-176 is raised at once
CommitDiscardTest(c) ==
    /\ pc[c] = "commit_discard"
    /\ IF loaded
       THEN Goto(c, "commit_discard_send") /\ seen' = [seen EXCEPT ![c] = cand]
       ELSE Goto(c, "idle") /\ UNCHANGED seen
    /\ UNCHANGED <<loaded, changed, cand, received, overlap, failed>>
    /\ StepFrame

\* line 174, self.discard_config(): 'nv config detach'
CommitDiscardSend(c) ==
    /\ pc[c] = "commit_discard_send"
    /\ Receives("abort", seen[c], TRUE)
    /\ \E reply \in PlainReplies :
          /\ failed' = (failed \/ Failed(reply))
          /\ Goto(c, IF Failed(reply) THEN "idle" ELSE "commit_discard_done")
    /\ UNCHANGED <<loaded, changed, seen, cand, overlap>>
    /\ StepFrame

\* line 174, self.discard_config(): self.loaded = False; then lines 175-176
CommitDiscardDone(c) ==
    /\ pc[c] = "commit_discard_done"
    /\ loaded' = discard_done(Self).loaded
    /\ Goto(c, "idle")
    /\ UNCHANGED <<changed, seen, cand, received, overlap, failed>>
    /\ StepFrame

\* lines 179-180
CommitDone(c) ==
    /\ pc[c] = "commit_done"
    /\ changed' = commit_done(Self).changed
    /\ loaded' = commit_done(Self).loaded
    /\ Goto(c, "idle")
    /\ UNCHANGED <<seen, cand, received, overlap, failed>>
    /\ StepFrame

NextCallers ==
    \E c \in Callers :
        \/ LoadBegin(c)
        \/ LoadSend(c)
        \/ DiscardTest(c)
        \/ DiscardSend(c)
        \/ DiscardDone(c)
        \/ CommitTest(c)
        \/ CommitSend(c)
        \/ CommitAnswer(c)
        \/ CommitDiscardTest(c)
        \/ CommitDiscardSend(c)
        \/ CommitDiscardDone(c)
        \/ CommitDone(c)

SpecCallers == InitCallers /\ [][NextCallers]_vars

(***************************************************************************)
(* Vocabulary of the properties.                                           *)
(***************************************************************************)
\* the last call ran on an open channel and every command it sent was answered
ChannelOk ==
    /\ pre.device = "connected"
    /\ \A i \in 1..Len(replies) : ~Failed(replies[i])

\* the device rejected the line it was sent
Rejects(reply) == Contains(reply, "error") \/ Contains(reply, "not found")

\* load_merge_candidate was given neither a file name nor content
NothingGiven ==
    /\ args.filename \in {NoneVal, ""}
    /\ \/ args.config.kind = "None"
       \/ args.config.kind = "str" /\ args.config.text = <<>>
       \/ args.config.kind = "list" /\ args.config.lines = <<>>

\* the non-empty lines load_merge_candidate was given, in their given order
GivenLines ==
    LET given == IF args.filename /= NoneVal THEN args.file
                 ELSE IF args.config.kind = "list" THEN args.config.lines
                 ELSE <<args.config.text>>
    IN  SelectSeq(given, LAMBDA l : l /= <<>>)

AbortCommands == {NetAbort, NvConfigDetach}

(***************************************************************************)
(* C1.  In both dialects a discard_config that follows a load leaves the   *)
(* session Idle (loaded = false), whatever the device answers to the       *)
(* abort command, and a compare_config called next returns the empty       *)
(* string and sends nothing.                                               *)
(***************************************************************************)
C1_DiscardAfterLoad ==
    [][ /\ (lastOp' = "discard_config" /\ pre'.loaded /\ ChannelOk')
              => (~loaded' /\ err' = "none")
        /\ (/\ lastOp = "discard_config" /\ pre.loaded /\ ChannelOk
            /\ lastOp' = "compare_config")
              => (ret' = <<>> /\ sent' = <<>> /\ err' = "none" /\ ~loaded')
      ]_vars

C1_Witness ==
    /\ lastOp = "discard_config"
    /\ pre.loaded
    /\ err = "none"
    /\ sent \in {<<NetAbort>>, <<NvConfigDetach>>}
    /\ ~loaded

(***************************************************************************)
(* C2.  Declarative dialect, commit_config in Loaded with force = false    *)
(* and an apply reply that contains "[y/N]": the driver sends apply, "n"   *)
(* and the detach command in that order, raises MergeConfigException, and  *)
(* the session is Idle afterwards.                                         *)
(***************************************************************************)
\* the reply has one "Warning:" and an "Are you" after it
HasWarningText(reply) ==
    /\ Cardinality({i \in 1..Len(reply) : reply[i] = "Warning:"}) = 1
    /\ \E i, j \in 1..Len(reply) :
          i < j /\ reply[i] = "Warning:" /\ reply[j] = "Are you"

\* the text between them, without the white space around it
WarningText(reply) ==
    LET i == CHOOSE k \in 1..Len(reply) : reply[k] = "Warning:"
        j == CHOOSE k \in (i+1)..Len(reply) :
                /\ reply[k] = "Are you"
                /\ \A m \in (i+1)..(k-1) : reply[m] /= "Are you"
    IN  Strip(SubSeq(reply, i+1, j-1))

C2_PromptDeclined ==
    (/\ lastOp = "commit_config"
     /\ pre.loaded /\ pre.use_nvue /\ ~pre.force
     /\ ChannelOk
     /\ Contains(replies[1], "[y/N]"))
        => /\ sent = <<NvConfigApply, AnswerNo, NvConfigDetach>>
           /\ err = "MergeConfigException"
           /\ HasWarningText(replies[1])
                 => msg = <<"Config cannot be applied. ">> \o WarningText(replies[1])
           /\ ~loaded

(***************************************************************************)
(* C3.  In either dialect a commit_config called in Loaded that is not     *)
(* declined (Legacy; Declarative without a prompt, or with a prompt and    *)
(* force set) returns with loaded = false and changed = true.              *)
(***************************************************************************)
C3_CommitSucceeds ==
    (/\ lastOp = "commit_config"
     /\ pre.loaded
     /\ ChannelOk
     /\ \/ ~pre.use_nvue
        \/ ~Contains(replies[1], "[y/N]")
        \/ pre.force)
        => /\ err = "none"
           /\ ~loaded
           /\ changed

C3_Witness ==
    /\ lastOp = "commit_config"
    /\ pre.loaded /\ pre.use_nvue /\ pre.force /\ ~pre.changed
    /\ sent = <<NvConfigApply, AnswerYes>>
    /\ err = "none"
    /\ ~loaded /\ changed

(***************************************************************************)
(* C4.  A load_merge_candidate started in Idle and aborted because the     *)
(* device rejected a line leaves the session Idle (loaded = false).        *)
(***************************************************************************)
C4_RejectedLoadStaysIdle ==
    (/\ lastOp = "load_merge_candidate"
     /\ ~pre.loaded
     /\ err = "MergeConfigException"
     /\ sent /= <<>>)
        => ~loaded

(***************************************************************************)
(* C5.  load_merge_candidate sends the non-empty lines one at a time in    *)
(* their given order and stops at the first line the device rejects: it    *)
(* raises MergeConfigException naming that line, sends no later line and   *)
(* sends no abort command.                                                 *)
(***************************************************************************)
C5_LoadStopsAtFirstRejection ==
    (/\ lastOp = "load_merge_candidate"
     /\ ChannelOk
     /\ ~NothingGiven
     /\ err /= "FileNotFoundError")
        => LET k == Len(sent)
           IN  /\ k <= Len(GivenLines)
               /\ sent = SubSeq(GivenLines, 1, k)
               /\ \A i \in 1..(k-1) : ~Rejects(replies[i])
               /\ \A i \in 1..k : sent[i] \notin AbortCommands
               /\ IF k > 0 /\ Rejects(replies[k])
                  THEN /\ err = "MergeConfigException"
                       /\ msg = <<"Command '">> \o GivenLines[k]
                                   \o <<"' cannot be applied.">>
                  ELSE /\ err = "none"
                       /\ k = Len(GivenLines)

C5_Witness ==
    /\ lastOp = "load_merge_candidate"
    /\ ChannelOk
    /\ Len(GivenLines) = 2
    /\ GivenLines[1] /= GivenLines[2]
    /\ sent = <<GivenLines[1]>>
    /\ Rejects(replies[1])
    /\ err = "MergeConfigException"

(***************************************************************************)
(* C6.  load_merge_candidate given neither a file name nor content raises  *)
(* the invalid-input MergeConfigException, sends nothing and leaves        *)
(* loaded and changed as they were.                                        *)
(***************************************************************************)
C6_NothingGivenIsRejected ==
    (lastOp = "load_merge_candidate" /\ NothingGiven)
        => /\ err = "MergeConfigException"
           /\ msg = <<"filename or config param must be provided.">>
           /\ sent = <<>>
           /\ loaded = pre.loaded
           /\ changed = pre.changed

C6_Witness ==
    /\ lastOp = "load_merge_candidate"
    /\ args.filename = ""
    /\ args.config.kind = "list" /\ args.config.lines = <<>>
    /\ pre.device = "connected"
    /\ err = "MergeConfigException"
    /\ ~loaded

(***************************************************************************)
(* C7.  commit_config and discard_config called in Idle, in either         *)
(* dialect, send nothing, raise nothing and leave loaded and changed       *)
(* unchanged.                                                              *)
(***************************************************************************)
C7_IdleCommitDiscardNoOp ==
    (lastOp \in {"commit_config", "discard_config"} /\ ~pre.loaded)
        => /\ sent = <<>>
           /\ err = "none"
           /\ loaded = pre.loaded
           /\ changed = pre.changed

C7_Witness ==
    /\ lastOp = "commit_config"
    /\ ~pre.loaded
    /\ pre.device = "connected"
    /\ pre.use_nvue
    /\ sent = <<>>
    /\ ~changed

(***************************************************************************)
(* C8.  compare_config in Idle, in either dialect, returns the empty       *)
(* string, sends nothing and leaves the session Idle, so every one of a    *)
(* run of consecutive calls does.                                          *)
(***************************************************************************)
C8_IdleCompareIsEmpty ==
    [][ (~loaded /\ lastOp' = "compare_config")
          => /\ ret' = <<>>
             /\ sent' = <<>>
             /\ err' = "none"
             /\ ~loaded'
             /\ UNCHANGED <<device, changed, use_nvue>>
      ]_vars

C8_Witness ==
    /\ lastOp = "compare_config"
    /\ ~pre.loaded
    /\ pre.device = "connected"
    /\ ~pre.use_nvue
    /\ ret = <<>>
    /\ ~loaded

(***************************************************************************)
(* C9.  rollback called while changed = false sends nothing, raises        *)
(* nothing and changes no field of the driver.                             *)
(***************************************************************************)
C9_RollbackWithoutCommitNoOp ==
    (lastOp = "rollback" /\ ~pre.changed)
        => /\ sent = <<>>
           /\ err = "none"
           /\ Self = pre

C9_Witness ==
    /\ lastOp = "rollback"
    /\ ~pre.changed
    /\ pre.device = "connected"
    /\ pre.loaded
    /\ sent = <<>>

(***************************************************************************)
(* C10.  rollback after a successful commit.  As claimed: Declarative      *)
(* sends the history query and then the apply of the second entry of the   *)
(* history; Legacy sends the single "net rollback last".                   *)
(***************************************************************************)
\* the revision token of one line of the history: rev_id: '<token>'
RevOf(line) == <<line[4]>>

C10_RollbackAppliesSecondEntry ==
    (lastOp = "rollback" /\ pre.changed /\ ChannelOk)
        => IF pre.use_nvue
           THEN /\ Len(sent) = 2
                /\ sent[1] = NvConfigHistory
                /\ \E ls \in SeqUpTo(HistLines, MaxHist) :
                      /\ replies[1] = JoinLines(ls)
                      /\ Len(ls) >= 2
                      /\ Len(ls[2]) = 5
                      /\ sent[2] = <<"nv config apply ">> \o RevOf(ls[2])
           ELSE sent = <<NetRollbackLast>>

(***************************************************************************)
(* C10, amended.  Declarative: rollback sends the history query; when the  *)
(* reply has at least two lines and the second line has a second field,    *)
(* it then sends the apply of that field without its quotes and clears     *)
(* changed; otherwise it raises IndexError after the history query alone   *)
(* and changed stays set.  Legacy: it sends the single "net rollback last" *)
(* and clears changed.                                                     *)
(***************************************************************************)
C10_RollbackAmended ==
    (lastOp = "rollback" /\ pre.changed /\ ChannelOk)
        => IF pre.use_nvue
           THEN \A ls \in SeqUpTo(HistLines, MaxHist) :
                  replies[1] = JoinLines(ls) =>
                    IF Len(ls) >= 2 /\ Len(ls[2]) = 5
                    THEN /\ sent = <<NvConfigHistory,
                                     <<"nv config apply ">> \o RevOf(ls[2])>>
                         /\ err = "none"
                         /\ ~changed
                    ELSE /\ sent = <<NvConfigHistory>>
                         /\ err = "IndexError"
                         /\ changed
           ELSE /\ sent = <<NetRollbackLast>>
                /\ err = "none"
                /\ ~changed

C10_Witness ==
    /\ lastOp = "rollback"
    /\ pre.changed /\ pre.use_nvue
    /\ replies[1] = JoinLines(<<<<"rev_id:", " ", "'", "5", "'">>,
                               <<"rev_id:", " ", "'", "4", "'">>>>)
    /\ sent = <<NvConfigHistory, <<"nv config apply ", "4">>>>
    /\ err = "none"
    /\ ~changed

(***************************************************************************)
(* C11.  Legacy dialect, compare_config in Loaded: the text returned is    *)
(* the pending-changes text cut at the marker "net add/del commands",      *)
(* without the white space around it and without its colour escapes; for   *)
(* "+ interface swp1\nnet add/del commands\n..." it is "+ interface swp1". *)
(***************************************************************************)
\* the text before the first marker, all of it when there is no marker
BeforeMarker(text) ==
    IF \E i \in 1..Len(text) : text[i] = "net add/del commands"
    THEN LET i == CHOOSE k \in 1..Len(text) :
                    /\ text[k] = "net add/del commands"
                    /\ \A j \in 1..(k-1) : text[j] /= "net add/del commands"
         IN  SubSeq(text, 1, i-1)
    ELSE text

C11_LegacyDiffIsCutAtMarker ==
    (/\ lastOp = "compare_config"
     /\ pre.loaded /\ ~pre.use_nvue
     /\ ChannelOk)
        => /\ err = "none"
           /\ ret = SelectSeq(Strip(BeforeMarker(replies[1])),
                              LAMBDA t : t \notin {"ESC[31m", "ESC[0m"})
           /\ replies[1] = <<"+ interface swp1", "\n", "net add/del commands",
                             "\n", "...">>
                 => ret = <<"+ interface swp1">>

(***************************************************************************)
(* C12.  Legacy dialect, compare_config in Loaded: when the pending-       *)
(* changes text has only white space before the marker, the call returns   *)
(* the empty string and raises nothing.                                    *)
(***************************************************************************)
C12_NothingBeforeMarkerIsNoDiff ==
    (/\ lastOp = "compare_config"
     /\ pre.loaded /\ ~pre.use_nvue
     /\ ChannelOk
     /\ \E i \in 1..Len(replies[1]) :
           /\ replies[1][i] = "net add/del commands"
           /\ \A j \in 1..(i-1) : replies[1][j] \in {" ", "\n"})
        => /\ ret = <<>>
           /\ err = "none"
           /\ sent = <<NetPending>>

C12_Witness ==
    /\ lastOp = "compare_config"
    /\ pre.loaded /\ ~pre.use_nvue
    /\ replies = <<<<"net add/del commands", "\n", "some ignored junk">>>>
    /\ ret = <<>>
    /\ err = "none"

(***************************************************************************)
(* C13.  In both dialects the text compare_config returns in Loaded has    *)
(* no ANSI colour escape in it, whatever the device's reply contains.      *)
(***************************************************************************)
AnsiEscapes == {"ESC[31m", "ESC[0m", "ESC[1;31m"}

C13_NoEscapeInDiff ==
    (lastOp = "compare_config" /\ pre.loaded /\ err = "none")
        => \A i \in 1..Len(ret) : ret[i] \notin AnsiEscapes

(***************************************************************************)
(* C14.  A command that returns structured output is sent once when its    *)
(* reply parses; when the reply does not parse it is sent exactly once     *)
(* more; when the second reply does not parse either the call raises       *)
(* ValueError after those two attempts and returns no value.               *)
(***************************************************************************)
\* the whole JSON documents among the replies
JsonDocuments ==
    {<<"null">>, <<"{", "}">>,
     <<"{", "\"swp1\": [{\"vlan\": 10}]", "}">>,
     <<"{", "\"swp1\": [{\"vlan\": 10}]",
       "\"swp2\": [{\"vlan\": 10, \"vlanEnd\": 12}]", "}">>}

C14_OneRetryOnMalformedOutput ==
    (lastOp = "get_vlans" /\ pre.device = "connected")
        => /\ Len(sent) \in {1, 2}
           /\ \A i \in 1..Len(sent) : sent[i] = NetShowBridgeVlanJson
           /\ Len(sent) = 2 <=> (~Failed(replies[1]) /\ replies[1] \notin JsonDocuments)
           /\ (/\ Len(sent) = 2
               /\ ~Failed(replies[2])
               /\ replies[2] \notin JsonDocuments)
                 => (err = "ValueError" /\ ret = <<>>)
           /\ (replies[Len(sent)] \in JsonDocuments) => err /= "ValueError"

C14_Witness ==
    /\ lastOp = "get_vlans"
    /\ pre.device = "connected"
    /\ replies = <<<<"{", "\"swp1\": [{\"vlan\": 10}]">>, <<>>>>
    /\ sent = <<NetShowBridgeVlanJson, NetShowBridgeVlanJson>>
    /\ err = "ValueError"

(***************************************************************************)
(* C15.  The dialect is fixed for the life of the session: no load,        *)
(* compare, commit, discard, rollback or query changes use_nvue, and none  *)
(* of them sends the version probe.                                        *)
(***************************************************************************)
SessionOps == {"load_merge_candidate", "compare_config", "commit_config",
               "discard_config", "rollback", "get_vlans"}

C15_DialectFixedAfterOpen ==
    [][lastOp' \in SessionOps
         => /\ use_nvue' = use_nvue
            /\ \A i \in 1..Len(sent') : sent'[i] /= NvShowSystem]_vars

C15_Witness ==
    /\ lastOp = "discard_config"
    /\ pre.device = "connected"
    /\ pre.use_nvue
    /\ use_nvue
    /\ sent = <<NvConfigDetach>>
    /\ err = "none"

(***************************************************************************)
(* C16.  Every open sends the version probe exactly once, and after it the *)
(* session is Declarative if and only if the probe's reply contains        *)
(* "Cumulus Linux 5" -- also when the same object was opened before.       *)
(***************************************************************************)
C16_OpenClassifiesByMarker ==
    (lastOp = "open" /\ err = "none")
        => /\ Len(SelectSeq(sent, LAMBDA c : c = NvShowSystem)) = 1
           /\ sent[Len(sent)] = NvShowSystem
           /\ use_nvue <=> Contains(replies[Len(replies)], "Cumulus Linux 5")

(***************************************************************************)
(* C17.  When the version probe of open fails on the channel, open does    *)
(* not send it again and raises ConnectionException.                       *)
(***************************************************************************)
C17_ProbeFailureIsConnectionError ==
    (/\ lastOp = "open"
     /\ Len(sent) >= 1
     /\ sent[Len(sent)] = NvShowSystem
     /\ Failed(replies[Len(replies)]))
        => /\ err = "ConnectionException"
           /\ Len(SelectSeq(sent, LAMBDA c : c = NvShowSystem)) = 1

(***************************************************************************)
(* C18.  load_merge_candidate filters out empty lines: whatever the source *)
(* (a file, one text, a list of lines), no empty or blank line is sent as  *)
(* a command, and when no line is rejected every other line is sent.       *)
(***************************************************************************)
\* the lines load_merge_candidate was given, blank ones included
AllGivenLines ==
    IF args.filename /= NoneVal THEN args.file
    ELSE IF args.config.kind = "list" THEN args.config.lines
    ELSE <<args.config.text>>

Blank(line) == Strip(line) = <<>>

C18_BlankLinesAreNotSent ==
    (/\ lastOp = "load_merge_candidate"
     /\ ChannelOk
     /\ ~NothingGiven
     /\ err /= "FileNotFoundError")
        => /\ \A i \in 1..Len(sent) : ~Blank(sent[i])
           /\ err = "none"
                => sent = SelectSeq(AllGivenLines, LAMBDA l : ~Blank(l))

(***************************************************************************)
(* C19.  Every command that discard_config, compare_config, commit_config  *)
(* and rollback send is the one the translation table gives for the        *)
(* operation and the session's dialect: a Legacy session sends no          *)
(* Declarative command and a Declarative session sends no Legacy command.  *)
(***************************************************************************)
LegacyCommands == {NetAbort, NetPending, NetCommit, NetRollbackLast}

IsApplyRevision(c) == Len(c) >= 1 /\ c[1] = "nv config apply "

IsDeclarativeCommand(c) ==
    \/ c \in {NvConfigDetach, NvConfigDiff, NvConfigApply, NvConfigHistory}
    \/ IsApplyRevision(c)

\* the commands of one operation in one dialect; "y" and "n" answer the
\* confirmation prompt of 'nv config apply'
Translated(op, nvue, c) ==
    CASE op = "discard_config" -> c = (IF nvue THEN NvConfigDetach ELSE NetAbort)
      [] op = "compare_config" -> c = (IF nvue THEN NvConfigDiff ELSE NetPending)
      [] op = "commit_config"  ->
            IF nvue THEN c \in {NvConfigApply, AnswerYes, AnswerNo, NvConfigDetach}
            ELSE c = NetCommit
      [] op = "rollback"       ->
            IF nvue THEN c = NvConfigHistory \/ IsApplyRevision(c)
            ELSE c = NetRollbackLast

TransactionOps == {"discard_config", "compare_config", "commit_config", "rollback"}

C19_CommandsMatchDialect ==
    lastOp \in TransactionOps
        => \A i \in 1..Len(sent) :
              /\ Translated(lastOp, pre.use_nvue, sent[i])
              /\ ~pre.use_nvue => ~IsDeclarativeCommand(sent[i])
              /\ pre.use_nvue => sent[i] \notin LegacyCommands
              /\ use_nvue = pre.use_nvue

C19_Witness ==
    /\ lastOp = "rollback"
    /\ pre.use_nvue
    /\ Len(sent) = 2
    /\ sent[1] = NvConfigHistory
    /\ IsApplyRevision(sent[2])
    /\ err = "none"

(***************************************************************************)
(* C20.  At most one candidate is active: a load_merge_candidate called    *)
(* while the session is Loaded leaves it Loaded and sends no abort or      *)
(* detach, and one discard_config or successful commit_config that follows *)
(* returns the session to Idle.                                            *)
(***************************************************************************)
C20_OneCandidateAtATime ==
    [][/\ (loaded /\ lastOp' = "load_merge_candidate")
            => /\ loaded'
               /\ \A i \in 1..Len(sent') : sent'[i] \notin AbortCommands
       /\ (/\ loaded
           /\ lastOp = "load_merge_candidate"
           /\ pre.loaded
           /\ lastOp' \in {"discard_config", "commit_config"}
           /\ err' = "none")
            => ~loaded']_vars

\* a second load on a Loaded session has sent both its lines
C20_Witness ==
    /\ lastOp = "load_merge_candidate"
    /\ pre.loaded
    /\ pre.device = "connected"
    /\ loaded
    /\ Len(sent) = 2
    /\ err = "none"

(***************************************************************************)
(* C21.  The diff is computed on demand: every compare_config on an open,  *)
(* Loaded session sends exactly one diff query and what it returns is set  *)
(* by the reply to that query alone; compare_config never changes loaded   *)
(* or changed.                                                             *)
(***************************************************************************)
\* the value compare_config gives for one reply to its diff query
DiffOfReply(nvue, reply) ==
    IF nvue THEN reply
    ELSE IF \A i \in 1..Len(BeforeMarker(reply)) :
                BeforeMarker(reply)[i] \in {" ", "\n"}
    THEN <<>>
    ELSE SelectSeq(reply, LAMBDA t : t \notin {"ESC[31m", "ESC[0m"})

C21_DiffIsComputedOnDemand ==
    lastOp = "compare_config"
        => /\ loaded = pre.loaded
           /\ changed = pre.changed
           /\ (pre.loaded /\ pre.device = "connected")
                => /\ Len(sent) = 1
                   /\ sent[1] = (IF pre.use_nvue THEN NvConfigDiff ELSE NetPending)
           /\ (pre.loaded /\ ChannelOk)
                => (err = "none" /\ ret = DiffOfReply(pre.use_nvue, replies[1]))

C21_Witness ==
    /\ lastOp = "compare_config"
    /\ pre.loaded
    /\ ChannelOk
    /\ sent = <<NetPending>>
    /\ replies = <<<<"+ interface swp1">>>>
    /\ ret = <<"+ interface swp1">>
    /\ loaded
    /\ err = "none"

(***************************************************************************)
(* C23.  A commit_config that ends in the merge rejection leaves changed   *)
(* as it was; when changed was false, a rollback that follows sends        *)
(* nothing and raises nothing.                                             *)
(***************************************************************************)
C23_RejectedCommitKeepsChanged ==
    [][/\ (lastOp' = "commit_config" /\ err' = "MergeConfigException")
            => changed' = changed
       /\ (/\ lastOp = "commit_config"
           /\ err = "MergeConfigException"
           /\ ~pre.changed
           /\ lastOp' = "rollback")
            => (sent' = <<>> /\ err' = "none" /\ ~changed')]_vars

C23_Witness ==
    /\ lastOp = "commit_config"
    /\ err = "MergeConfigException"
    /\ sent = <<NvConfigApply, AnswerNo, NvConfigDetach>>
    /\ ~pre.changed
    /\ ~changed

(***************************************************************************)
(* C25.  load_merge_candidate given a non-empty list that holds only empty *)
(* lines is not rejected: it raises nothing, sends nothing and leaves the  *)
(* session Loaded, and the compare_config, commit_config or discard_config *)
(* that follows on the open session sends its command.                     *)
(***************************************************************************)
OnlyEmptyLines ==
    /\ args.filename = NoneVal
    /\ args.config.kind = "list"
    /\ Len(args.config.lines) > 0
    /\ \A i \in 1..Len(args.config.lines) : args.config.lines[i] = <<>>

C25_EmptyLinesStillLoad ==
    [][/\ (lastOp' = "load_merge_candidate" /\ OnlyEmptyLines')
            => (err' = "none" /\ sent' = <<>> /\ loaded')
       /\ (/\ lastOp = "load_merge_candidate"
           /\ OnlyEmptyLines
           /\ device = "connected"
           /\ lastOp' \in {"compare_config", "commit_config", "discard_config"})
            => /\ Len(sent') >= 1
               /\ Translated(lastOp', use_nvue, sent'[1])]_vars

C25_Witness ==
    /\ lastOp = "load_merge_candidate"
    /\ OnlyEmptyLines
    /\ ~pre.loaded
    /\ pre.device = "connected"
    /\ loaded
    /\ sent = <<>>
    /\ err = "none"

(***************************************************************************)
(* C24.  A completed rollback resets changed to false, so a second         *)
(* rollback with no successful commit in between sends no command; as      *)
(* claimed, the number of rollbacks that reach the device never exceeds    *)
(* the number of successful commits (in a session whose channel never      *)
(* failed).                                                                *)
(***************************************************************************)
C24_RollbacksNeverExceedCommits ==
    /\ (lastOp = "rollback" /\ err = "none") => ~changed
    /\ (lastOp = "rollback" /\ ~pre.changed) => sent = <<>>
    /\ ~failed => reached <= commits

\* C24 as it holds: the rollbacks counted are those that completed.  A
\* rollback that raised after it sent a command leaves changed true, and
\* the next rollback reaches the device again.
C24_CompletedRollbacksNeverExceedCommits ==
    /\ (lastOp = "rollback" /\ err = "none") => ~changed
    /\ (lastOp = "rollback" /\ ~pre.changed) => sent = <<>>
    /\ completed <= commits
    /\ (lastOp = "rollback" /\ err /= "none" /\ sent /= <<>>) => changed

\* two commits, each followed by a completed rollback
C24_Witness ==
    /\ lastOp = "rollback"
    /\ err = "none"
    /\ sent /= <<>>
    /\ ~changed
    /\ commits = 2
    /\ completed = 2

(***************************************************************************)
(* C22.  Nothing protects the session against two callers: some            *)
(* interleaving lets a commit_config and a discard_config both pass the    *)
(* test of loaded on one candidate and both send their command; as         *)
(* claimed, with a single caller (no call begins while another is in       *)
(* progress, no send fails) no candidate is sent both a commit and an      *)
(* abort.                                                                  *)
(***************************************************************************)
\* candidate k was sent both a commit and an abort
SentBoth(k) ==
    /\ \E r \in received : r.kind = "commit" /\ r.cand = k
    /\ \E r \in received : r.kind = "abort" /\ r.cand = k

\* candidate k was sent a commit, and an abort by a discard_config call of
\* a caller (not the one commit_config makes after a declined prompt)
SentBothByCallers(k) ==
    /\ \E r \in received : r.kind = "commit" /\ r.cand = k
    /\ \E r \in received : r.kind = "abort" /\ r.cand = k /\ ~r.nested

C22_SingleCallerNeverSendsBoth ==
    (~overlap /\ ~failed) => \A k \in 1..cand : ~SentBoth(k)

\* C22 as it holds: with a single caller a candidate is sent both only by
\* commit_config itself, which detaches the candidate it has just declined
\* to apply; a discard_config call of the caller never follows a commit of
\* the same candidate.
C22_SingleCallerAmended ==
    (~overlap /\ ~failed)
        => \A k \in 1..cand :
              /\ ~SentBothByCallers(k)
              /\ SentBoth(k) => (use_nvue /\ ~force)

\* two callers: one candidate was sent 'net commit' and 'net abort'
C22_Witness ==
    /\ overlap
    /\ ~failed
    /\ ~use_nvue
    /\ cand = 1
    /\ SentBothByCallers(1)
    /\ \A c \in Callers : pc[c] = "idle"

====
